---- MODULE Spec2Model ----
(***************************************************************************)
(* The interior-design assistant: the generation gateway (api/generate.ts) *)
(* with the client service (services/geminiService.ts), and the client     *)
(* orchestrator (the App component).                                       *)
(*                                                                         *)
(* JavaScript strings are sequences of tokens, so that template literals,  *)
(* join() and "contains" are computed and not assumed.  A nullable React   *)
(* state holds the record null or a record that wraps its value.           *)
(***************************************************************************)
EXTENDS Integers, Sequences, FiniteSets, Bags, TLC

(* ------------------------------ bounds --------------------------------- *)

\* content parts in one candidate of a backend response
MaxParts == 2
\* safety ratings in one candidate
MaxRatings == 2
\* alternative palettes in a plan the backend generates
MaxAlternatives == 1
\* palettes in one generateMorePalettes response
MaxNewPalettes == 2
\* gateway calls of one session outstanding at the same time
MaxCalls == 2
\* FileReader reads outstanding at the same time
MaxReads == 1
MaxSeen == 3

(* --------------------------- JavaScript values ------------------------- *)

null == [null |-> TRUE]

Undefined == "<undefined>"

\* Boolean(x) for a value that is a string or undefined
Truthy(s) == s # Undefined /\ s # ""

SeqsUpTo(S, n) == UNION {[1..k -> S] : k \in 0..n}

RECURSIVE Join(_, _)
\* Array.prototype.join of strings, as tokens
Join(list, sep) ==
    IF list = <<>> THEN <<>>
    ELSE IF Len(list) = 1 THEN <<list[1]>>
    ELSE <<list[1], sep>> \o Join(Tail(list), sep)

Range(list) == {list[i] : i \in 1..Len(list)}

\* String.prototype.includes for a token
Contains(message, token) == token \in Range(message)

(* ------------------------------ data model ----------------------------- *)

\* ColorPalette: the palettes share the colour and differ in the accent
Palettes ==
    { [color |-> "Sage Green", accent |-> "Brass"],
      [color |-> "Sage Green", accent |-> "Terracotta"] }

\* the fields of a DesignPlan other than wallColor and alternativePalettes
PlanBodies ==
    { [analysis |-> a, designRationale |-> "rationale", lighting |-> "pendant lights",
       flooring |-> "oak", furnitureSuggestions |-> <<"sofa", "rug">>,
       estimatedCost |-> [min |-> 1000, max |-> 2000, currency |-> "USD"]]
      : a \in {"bright room"} }

MkPlan(b, w, alts) ==
    [analysis |-> b.analysis, designRationale |-> b.designRationale,
     wallColor |-> w, lighting |-> b.lighting, flooring |-> b.flooring,
     furnitureSuggestions |-> b.furnitureSuggestions,
     estimatedCost |-> b.estimatedCost, alternativePalettes |-> alts]

\* the plans the backend can generate
GeneratedPlans ==
    {MkPlan(b, w, alts) : b \in PlanBodies, w \in Palettes,
                          alts \in SeqsUpTo(Palettes, MaxAlternatives)}

\* the palette lists the backend can generate
GeneratedPalettes == SeqsUpTo(Palettes, MaxNewPalettes)

\* base64 of the uploaded photograph
RoomPhotos == {"cm9vbQ=="}

(* ======================= the generation gateway ======================== *)

(* --- what the generative backend can answer (ai.models.generateContent) *)

PartTexts == {"", "I cannot", "edit this", "[No text response]"}
ImageDatas == {"AAAA", "BBBB"}

\* a content part: its text and its inlineData.data, each possibly undefined
Parts ==
    {[text |-> t, data |-> Undefined] : t \in PartTexts \cup {Undefined}}
    \cup {[text |-> Undefined, data |-> d] : d \in ImageDatas \cup {""}}

FinishReasons == {Undefined, "STOP", "SAFETY"}
HarmCategories == {"VIOLENCE", "SEXUAL"}

\* safetyRatings: undefined, or one rating for each of some categories
SafetyRatings ==
    {[defined |-> FALSE, ratings |-> <<>>]}
    \cup {[defined |-> TRUE, ratings |-> r] :
            r \in {q \in SeqsUpTo([category : HarmCategories, blocked : BOOLEAN], MaxRatings) :
                     \A i, j \in 1..Len(q) : i # j => q[i].category # q[j].category}}

\* content?.parts: undefined, or an array of parts
Contents ==
    {[hasParts |-> FALSE, parts |-> <<>>]}
    \cup {[hasParts |-> TRUE, parts |-> ps] : ps \in SeqsUpTo(Parts, MaxParts)}

Candidates == [content : Contents, finishReason : FinishReasons, safetyRatings : SafetyRatings]

\* a candidate that may follow the first one
LaterCandidates ==
    {[content |-> [hasParts |-> TRUE, parts |-> <<p>>], finishReason |-> "STOP",
      safetyRatings |-> [defined |-> FALSE, ratings |-> <<>>]]
       : p \in {[text |-> Undefined, data |-> "BBBB"]}}

\* response.candidates: undefined or empty (no candidate), one candidate, or more
ImageResponses ==
    {[candidates |-> <<>>]}
    \cup {[candidates |-> <<c>>] : c \in Candidates}
    \cup {[candidates |-> <<c, d>>] : c \in Candidates, d \in LaterCandidates}

\* the tokens of response.text: whitespace, one JSON document, or other text
Whitespace == [kind |-> "ws"]
Junk == [kind |-> "junk"]
Json(v) == [kind |-> "json", value |-> v]

TextsOf(values) ==
    {<<>>, <<Junk>>, <<Whitespace>>}
    \cup UNION {{<<Json(v)>>, <<Whitespace, Json(v), Whitespace>>, <<Json(v), Junk>>} : v \in values}

JsonResponses(values) ==
    {[hasText |-> FALSE, text |-> <<>>]}
    \cup {[hasText |-> TRUE, text |-> t] : t \in TextsOf(values)}

UpstreamMessages == {<<"429 quota exceeded">>}

\* generateContent throws, or resolves with a response
BackendOutcomes(responses) ==
    {[throws |-> TRUE, message |-> m, response |-> null] : m \in UpstreamMessages}
    \cup {[throws |-> FALSE, message |-> <<>>, response |-> r] : r \in responses}

(* --- the handler *)

JsonResponse(status, body) == [status |-> status, body |-> body]

\* String.prototype.trim on a text
RECURSIVE TrimStart(_)
TrimStart(text) ==
    IF text # <<>> /\ Head(text) = Whitespace THEN TrimStart(Tail(text)) ELSE text

RECURSIVE TrimEnd(_)
TrimEnd(text) ==
    IF text # <<>> /\ text[Len(text)] = Whitespace
    THEN TrimEnd(SubSeq(text, 1, Len(text) - 1)) ELSE text

Trim(text) == TrimEnd(TrimStart(text))

\* JSON.parse: the value of a text that is one JSON document, or a SyntaxError
JSONparse(text) ==
    LET doc == SelectSeq(text, LAMBDA t : t # Whitespace)
    IN  IF Len(doc) = 1 /\ doc[1].kind = "json"
        THEN [ok |-> TRUE, value |-> doc[1].value, message |-> <<>>]
        ELSE [ok |-> FALSE, value |-> null, message |-> <<"Unexpected token in JSON">>]

\* the outcome of the try block: a Response returned, or an Error thrown
Returned(response) == [thrown |-> FALSE, response |-> response, message |-> <<>>]
Thrown(message) == [thrown |-> TRUE, response |-> null, message |-> message]

\* response.candidates?.[0]
FirstCandidate(response) ==
    IF response.candidates = <<>>
    THEN [defined |-> FALSE]
    ELSE [defined |-> TRUE, candidate |-> response.candidates[1]]

\* a scan that would keep the last part with image data
LastImagePart(parts) ==
    IF \E i \in 1..Len(parts) : Truthy(parts[i].data)
    THEN CHOOSE i \in 1..Len(parts) :
            Truthy(parts[i].data) /\ \A j \in (i + 1)..Len(parts) : ~Truthy(parts[j].data)
    ELSE 0

\* the index of the first part with inlineData and inlineData.data, or 0
FirstImagePart(parts) ==
    IF \E i \in 1..Len(parts) : Truthy(parts[i].data)
    THEN CHOOSE i \in 1..Len(parts) :
            Truthy(parts[i].data) /\ \A j \in 1..(i - 1) : ~Truthy(parts[j].data)
    ELSE 0

NoTextResponse == "[No text response]"

\* candidate?.content?.parts?.map(p => p.text).filter(Boolean).join(' ') || '[No text response]'
TextResponse(first) ==
    LET texts == IF first.defined /\ first.candidate.content.hasParts
                 THEN SelectSeq([i \in 1..Len(first.candidate.content.parts) |->
                                    first.candidate.content.parts[i].text], Truthy)
                 ELSE <<>>
    IN  IF texts = <<>> THEN <<NoTextResponse>> ELSE Join(texts, " ")

\* a listing that would not filter the ratings by r.blocked
RatedCategories(first) ==
    LET rated == IF first.defined /\ first.candidate.safetyRatings.defined
                 THEN first.candidate.safetyRatings.ratings
                 ELSE <<>>
    IN  IF rated = <<>> THEN <<"unknown">>
        ELSE Join([i \in 1..Len(rated) |-> rated[i].category], ", ")

\* safetyRatings?.filter(r => r.blocked).map(r => r.category).join(', ') || 'unknown'
BlockedCategories(first) ==
    LET blocked == IF first.defined /\ first.candidate.safetyRatings.defined
                   THEN SelectSeq(first.candidate.safetyRatings.ratings, LAMBDA r : r.blocked)
                   ELSE <<>>
    IN  IF blocked = <<>> THEN <<"unknown">>
        ELSE Join([i \in 1..Len(blocked) |-> blocked[i].category], ", ")

NoImageMessage == <<"The AI did not return a redesigned image.">>
NoCandidatesMessage == <<"The AI returned no valid candidates in the response.">>
SafetyPrefix == "Image generation was blocked by safety filters for the following reasons: "
TextPrefix == "The AI returned a text message instead of an image: \""
StoppedInfix == " The process stopped unexpectedly. Reason: "

\* a chain whose last resort would always be the 'no valid candidates' message
ImageErrorMessageNoCandidates(first) ==
    LET finishReason == IF first.defined THEN first.candidate.finishReason ELSE Undefined
        textResponse == TextResponse(first)
    IN  IF finishReason = "SAFETY"
        THEN <<SafetyPrefix>> \o BlockedCategories(first) \o <<".">>
        ELSE IF textResponse # <<NoTextResponse>>
        THEN <<TextPrefix>> \o textResponse \o <<"\"">>
        ELSE IF Truthy(finishReason)
        THEN NoImageMessage \o <<StoppedInfix, finishReason, ".">>
        ELSE NoCandidatesMessage

\* the message of the Error thrown when the response holds no image
ImageErrorMessage(first) ==
    LET finishReason == IF first.defined THEN first.candidate.finishReason ELSE Undefined
        textResponse == TextResponse(first)
    IN  IF finishReason = "SAFETY"
        THEN <<SafetyPrefix>> \o BlockedCategories(first) \o <<".">>
        ELSE IF textResponse # <<NoTextResponse>>
        THEN <<TextPrefix>> \o textResponse \o <<"\"">>
        ELSE IF Truthy(finishReason)
        THEN NoImageMessage \o <<StoppedInfix, finishReason, ".">>
        ELSE IF ~first.defined
        THEN NoCandidatesMessage
        ELSE NoImageMessage

\* case 'generateRedesignedImage', after the backend has answered
MapImageResponse(response) ==
    LET first == FirstCandidate(response)
        parts == IF first.defined /\ first.candidate.content.hasParts
                 THEN first.candidate.content.parts ELSE <<>>
        i == FirstImagePart(parts)
    IN  IF i # 0
        THEN Returned(JsonResponse(200, [imageBytes |-> parts[i].data]))
        ELSE Thrown(ImageErrorMessage(first))

NoImageMessage2 ==
    <<"The AI did not return a redesigned image. The response was valid but contained no image data.">>

\* case 'generateRedesignedImage' of the second definition of handler
MapImageResponse2(response) ==
    LET first == FirstCandidate(response)
        parts == IF first.defined /\ first.candidate.content.hasParts
                 THEN first.candidate.content.parts ELSE <<>>
        i == FirstImagePart(parts)
    IN  IF i # 0
        THEN Returned(JsonResponse(200, [imageBytes |-> parts[i].data]))
        ELSE Thrown(NoImageMessage2)

\* a mapping that would answer 200 with what it has when the text does not parse
MapJsonResponseLenient(response) ==
    IF ~response.hasText
    THEN Thrown(<<"Cannot read properties of undefined (reading 'trim')">>)
    ELSE LET parsedJson == JSONparse(Trim(response.text))
         IN  IF parsedJson.ok
             THEN Returned(JsonResponse(200, parsedJson.value))
             ELSE Returned(JsonResponse(200, null))

\* cases 'generateDesignIdeas' and 'generateMorePalettes', after the backend has answered
MapJsonResponse(response) ==
    IF ~response.hasText
    THEN Thrown(<<"Cannot read properties of undefined (reading 'trim')">>)
    ELSE LET parsedJson == JSONparse(Trim(response.text))
         IN  IF parsedJson.ok
             THEN Returned(JsonResponse(200, parsedJson.value))
             ELSE Thrown(parsedJson.message)

Actions == {"generateDesignIdeas", "generateRedesignedImage", "generateMorePalettes"}

ModelOf(action) ==
    IF action = "generateRedesignedImage" THEN "gemini-2.5-flash-image-preview"
    ELSE "gemini-2.5-flash"

\* a switch whose default case would throw
DispatchDefaultThrows(action, backend) ==
    IF action \notin Actions
    THEN [outcome |-> Thrown(<<"Invalid action">>), backendCalls |-> <<>>]
    ELSE [outcome |-> IF backend.throws THEN Thrown(backend.message)
                      ELSE IF action = "generateRedesignedImage"
                      THEN MapImageResponse(backend.response)
                      ELSE MapJsonResponse(backend.response),
          backendCalls |-> <<ModelOf(action)>>]

\* a switch that would call generateContent again after it has thrown
DispatchRetrying(action, backend) ==
    IF action \notin Actions
    THEN [outcome |-> Returned(JsonResponse(400, [error |-> <<"Invalid action">>])),
          backendCalls |-> <<>>]
    ELSE [outcome |-> IF backend.throws THEN Thrown(backend.message)
                      ELSE IF action = "generateRedesignedImage"
                      THEN MapImageResponse(backend.response)
                      ELSE MapJsonResponse(backend.response),
          backendCalls |-> IF backend.throws THEN <<ModelOf(action), ModelOf(action)>>
                           ELSE <<ModelOf(action)>>]

\* the switch: the outcome of the try block and the backend calls made
Dispatch(action, backend) ==
    IF action \notin Actions
    THEN [outcome |-> Returned(JsonResponse(400, [error |-> <<"Invalid action">>])),
          backendCalls |-> <<>>]
    ELSE [outcome |-> IF backend.throws THEN Thrown(backend.message)
                      ELSE IF action = "generateRedesignedImage"
                      THEN MapImageResponse(backend.response)
                      ELSE MapJsonResponse(backend.response),
          backendCalls |-> <<ModelOf(action)>>]

\* the switch of the second definition of handler
Dispatch2(action, backend) ==
    IF action \notin Actions
    THEN [outcome |-> Returned(JsonResponse(400, [error |-> <<"Invalid action">>])),
          backendCalls |-> <<>>]
    ELSE [outcome |-> IF backend.throws THEN Thrown(backend.message)
                      ELSE IF action = "generateRedesignedImage"
                      THEN MapImageResponse2(backend.response)
                      ELSE MapJsonResponse(backend.response),
          backendCalls |-> <<ModelOf(action)>>]

\* a handler that would look at the credential before the method
handlerChecksKeyFirst(request, env, backend) ==
    LET try ==
          IF ~env.hasApiKey
          THEN [outcome |-> Thrown(<<"API_KEY environment variable is not set.">>),
                backendCalls |-> <<>>]
          ELSE IF request.method # "POST"
          THEN [outcome |-> Returned(JsonResponse(405, [error |-> <<"Method not allowed">>])),
                backendCalls |-> <<>>]
          ELSE IF ~request.bodyParses
          THEN [outcome |-> Thrown(<<"Unexpected end of JSON input">>),
                backendCalls |-> <<>>]
          ELSE Dispatch(request.action, backend)
    IN  [response |-> IF try.outcome.thrown
                      THEN JsonResponse(500, [error |-> <<"Server error: ">> \o try.outcome.message])
                      ELSE try.outcome.response,
         backendCalls |-> try.backendCalls]

\* a handler that would read the body before it looks at the credential
handlerParsesFirst(request, env, backend) ==
    IF request.method # "POST"
    THEN [response |-> JsonResponse(405, [error |-> <<"Method not allowed">>]),
          backendCalls |-> <<>>]
    ELSE LET try ==
               IF ~request.bodyParses
               THEN [outcome |-> Thrown(<<"Unexpected end of JSON input">>),
                     backendCalls |-> <<>>]
               ELSE IF ~env.hasApiKey
               THEN [outcome |-> Thrown(<<"API_KEY environment variable is not set.">>),
                     backendCalls |-> <<>>]
               ELSE Dispatch(request.action, backend)
         IN  [response |-> IF try.outcome.thrown
                           THEN JsonResponse(500, [error |-> <<"Server error: ">> \o try.outcome.message])
                           ELSE try.outcome.response,
              backendCalls |-> try.backendCalls]

\* the first definition of handler in api/generate.ts
handler(request, env, backend) ==
    IF request.method # "POST"
    THEN [response |-> JsonResponse(405, [error |-> <<"Method not allowed">>]),
          backendCalls |-> <<>>]
    ELSE LET try ==
               IF ~env.hasApiKey
               THEN [outcome |-> Thrown(<<"API_KEY environment variable is not set.">>),
                     backendCalls |-> <<>>]
               ELSE IF ~request.bodyParses
               THEN [outcome |-> Thrown(<<"Unexpected end of JSON input">>),
                     backendCalls |-> <<>>]
               ELSE Dispatch(request.action, backend)
         IN  [response |-> IF try.outcome.thrown
                           THEN JsonResponse(500, [error |-> <<"Server error: ">> \o try.outcome.message])
                           ELSE try.outcome.response,
              backendCalls |-> try.backendCalls]

\* the second definition of handler in api/generate.ts
handler2(request, env, backend) ==
    IF request.method # "POST"
    THEN [response |-> JsonResponse(405, [error |-> <<"Method not allowed">>]),
          backendCalls |-> <<>>]
    ELSE LET try ==
               IF ~env.hasApiKey
               THEN [outcome |-> Thrown(<<"API_KEY environment variable is not set.">>),
                     backendCalls |-> <<>>]
               ELSE IF ~request.bodyParses
               THEN [outcome |-> Thrown(<<"Unexpected end of JSON input">>),
                     backendCalls |-> <<>>]
               ELSE Dispatch2(request.action, backend)
         IN  [response |-> IF try.outcome.thrown
                           THEN JsonResponse(500, [error |-> <<"Server error: ">> \o try.outcome.message])
                           ELSE try.outcome.response,
              backendCalls |-> try.backendCalls]

(* --- the prompts *)

\* payload.style and payload.roomType; room types in several spellings
Styles == {"Modern", "Coastal"}
RoomTypes == {"Living Room", "Exterior", "EXTERIOR", "exterior", "Exterior Wall"}

\* String.prototype.toLowerCase on the room types
toLowerCase ==
    [r \in RoomTypes |->
        IF r = "Living Room" THEN "living room"
        ELSE IF r = "Exterior Wall" THEN "exterior wall"
        ELSE "exterior"]

\* payload.dimensions: absent, or width, length (each possibly empty) and unit
DimensionValues == {"", Undefined, "12", "10"}
Units == {"ft", "m"}
Dimensions ==
    {[defined |-> FALSE]}
    \cup {[defined |-> TRUE, width |-> w, length |-> l, unit |-> u] :
            w \in DimensionValues, l \in DimensionValues, u \in Units}

\* payload.newColors: absent, or a palette whose fields may be empty or missing
NewColors ==
    {[defined |-> FALSE]}
    \cup {[defined |-> TRUE, color |-> c, accent |-> a] :
            c \in {"", Undefined, "Navy"}, a \in {"", Undefined, "Gold"}}

DimensionLead == " The user has specified the room is approximately "
DimensionTail == " long. Please ensure your furniture suggestions and layout advice are appropriately scaled for a room of this size and explicitly mention this in your analysis."

\* a clause that would be written as soon as the width is given
DimensionTextWidthOnly(dimensions) ==
    IF dimensions.defined /\ Truthy(dimensions.width)
    THEN LET unitName == IF dimensions.unit = "ft" THEN "feet" ELSE "meters"
         IN  <<DimensionLead, dimensions.width, " ", unitName, " wide by ",
               dimensions.length, " ", unitName, DimensionTail>>
    ELSE <<>>

\* dimensionText of case 'generateDesignIdeas'
DimensionText(dimensions) ==
    IF dimensions.defined /\ Truthy(dimensions.width) /\ Truthy(dimensions.length)
    THEN LET unitName == IF dimensions.unit = "ft" THEN "feet" ELSE "meters"
         IN  <<DimensionLead, dimensions.width, " ", unitName, " wide by ",
               dimensions.length, " ", unitName, DimensionTail>>
    ELSE <<>>

\* textPart.text of case 'generateDesignIdeas'
PlanPrompt(payload) ==
    <<"You are a world-class AI interior designer with a keen eye for detail and aesthetics. Analyze the provided room image, which is a ",
      payload.roomType,
      ", and generate a complete design makeover plan in a friendly and inspiring tone. The user wants a \"",
      payload.style,
      "\" style. Your recommendations must be appropriate for a ",
      payload.roomType,
      ". Your goal is to create a truly inspiring and practical makeover plan.\n">>
    \o DimensionText(payload.dimensions)
    \o <<"\nYour tasks are:\n1. Briefly analyze the current room's strengths and weaknesses.\n2. Suggest a full makeover based on the selected style, keeping the provided dimensions in mind if available.\n3. Output specific ideas for a primary wall color palette, flooring, and lighting.\n4. Recommend 3-5 key furniture or decor items with detailed descriptions and placement suggestions. Ensure items are scaled correctly for the room. For each recommended item, you must also provide a `modelUrl`, which should be a publicly accessible URL to a 3D model of the item, preferably in GLTF or OBJ format. If a real model cannot be found, provide a realistic placeholder URL (e.g., 'https://models.example.com/modern_chair.gltf').\n5. Provide a realistic, estimated total budget range (min and max) for the complete makeover. Also, include an estimated price for each recommended furniture item. All monetary values should be in USD.\n6. Also provide exactly 3 alternative color palettes (primary and accent) that would offer a different mood while still fitting the requested style.\n7. Provide a 'Design Rationale' explaining why your suggestions create a cohesive and high-quality '",
      payload.style,
      "' design, touching on principles like balance, harmony, or focal points.\n\nProvide the output in JSON format according to the provided schema. Ensure the descriptions are vivid and helpful.">>

\* newColors?.color || designPlan.wallColor.color
PrimaryColor(designPlan, newColors) ==
    IF newColors.defined /\ Truthy(newColors.color)
    THEN newColors.color ELSE designPlan.wallColor.color

\* newColors?.accent || designPlan.wallColor.accent
AccentColor(designPlan, newColors) ==
    IF newColors.defined /\ Truthy(newColors.accent)
    THEN newColors.accent ELSE designPlan.wallColor.accent

\* a comparison that would not lower the case
IsExteriorExact(roomType) == roomType = "exterior"

\* roomType.toLowerCase() === 'exterior'
IsExterior(roomType) == toLowerCase[roomType] = "exterior"

\* designPlan.furnitureSuggestions.map(f => f.name).join(', ')
FurnitureList(designPlan) == Join(designPlan.furnitureSuggestions, ", ")

ExteriorTask == "Task: Redesign this building exterior in a photorealistic \""
ExteriorOutput == "\".\n4. IMPORTANT: Do not alter the building's core structure (walls, windows, roof).\nOutput: Return ONLY the final, edited image without any surrounding text or explanation."
InteriorTask == "Task: Redesign the interior of this "
InteriorOutput == "\".\n6. IMPORTANT: Do not alter the room's core structure (windows, doors, architectural features).\nOutput: Return ONLY the final, redesigned image without any surrounding text or explanation."

\* textPrompt of case 'generateRedesignedImage'
ImagePrompt(payload) ==
    LET primaryColor == PrimaryColor(payload.designPlan, payload.newColors)
        accentColor == AccentColor(payload.designPlan, payload.newColors)
    IN  IF IsExterior(payload.roomType)
        THEN <<ExteriorTask, payload.style,
               "\" style.\nInstructions:\n1. Change the main color to \"", primaryColor,
               "\" with \"", accentColor,
               "\" accents.\n2. Update landscaping and add outdoor items: ">>
             \o FurnitureList(payload.designPlan)
             \o <<".\n3. The lighting should be \"", payload.designPlan.lighting,
                  ExteriorOutput>>
        ELSE <<InteriorTask, payload.roomType, " photorealistically in the \"", payload.style,
               "\" style.\nInstructions:\n1. Remove ALL existing furniture, decor, and items from the room.\n2. Change the wall color to \"",
               primaryColor,
               "\".\n3. Change the floor to \"", payload.designPlan.flooring,
               "\".\n4. Add the following new furniture, arranged in a natural and functional layout: ">>
             \o FurnitureList(payload.designPlan)
             \o <<".\n5. Adjust the lighting to be like \"", payload.designPlan.lighting,
                  InteriorOutput>>

ExteriorTask2 == "Task: Redesign the exterior of this building.\nStyle: \""
InteriorTask2 == "Task: Redesign the interior of this "
Goal2 == "\".\nGoal: A single, photorealistic image. No text."

\* textPrompt of case 'generateRedesignedImage' of the second definition of handler
ImagePrompt2(payload) ==
    LET primaryColor == PrimaryColor(payload.designPlan, payload.newColors)
        accentColor == AccentColor(payload.designPlan, payload.newColors)
    IN  IF IsExterior(payload.roomType)
        THEN <<ExteriorTask2, payload.style,
               "\".\nInstructions:\n1. Keep the original building structure (architecture, windows, roof).\n2. Change main surface color to \"",
               primaryColor,
               "\".\n3. Change trim and accent color to \"", accentColor,
               "\".\n4. Replace landscaping and any movable objects to fit the style. Include: ">>
             \o FurnitureList(payload.designPlan)
             \o <<".\n5. Set lighting to be \"", payload.designPlan.lighting, Goal2>>
        ELSE <<InteriorTask2, payload.roomType, ".\nStyle: \"", payload.style,
               "\".\nInstructions:\n1. Keep the original room structure (walls, windows, doors).\n2. Change wall color to \"",
               primaryColor, "\" (main) and \"", accentColor,
               "\" (accent).\n3. Change flooring to \"", payload.designPlan.flooring,
               "\".\n4. Remove all old furniture.\n5. Add new furniture: ">>
             \o FurnitureList(payload.designPlan)
             \o <<".\n6. Set lighting to be \"", payload.designPlan.lighting, Goal2>>

\* `- ${p.color} & ${p.accent}`
PaletteLine(p) == <<"- ", p.color, " & ", p.accent>>

RECURSIVE JoinLines(_)
\* .map(p => `- ...`).join('\n')
JoinLines(palettes) ==
    IF palettes = <<>> THEN <<>>
    ELSE IF Len(palettes) = 1 THEN PaletteLine(palettes[1])
    ELSE PaletteLine(palettes[1]) \o <<"\n">> \o JoinLines(Tail(palettes))

\* a list that would leave out the wall colour
ExistingPalettesAlternativesOnly(designPlan) ==
    JoinLines(designPlan.alternativePalettes)

\* existingPalettes of case 'generateMorePalettes'
ExistingPalettes(designPlan) ==
    JoinLines(<<designPlan.wallColor>> \o designPlan.alternativePalettes)

\* prompt of case 'generateMorePalettes'
PalettesPrompt(payload) ==
    <<"You are an AI color consultant for an interior design app. Based on the following design analysis for a \"",
      payload.style,
      "\" themed room, please generate exactly 3 new and distinct color palettes. **Design Analysis:** ",
      payload.designPlan.analysis,
      " **Important:** The user has already seen the following palettes, so please provide completely different options that suggest different moods (e.g., one calming, one energetic, one sophisticated): ">>
    \o ExistingPalettes(payload.designPlan)
    \o <<" Return the output as a JSON array of objects, where each object has a 'color' and 'accent' property, according to the provided schema.">>

(* ========================= the client service ========================== *)

\* fetch rejects, or resolves with the handler's Response
NetworkFailure == [network |-> TRUE, response |-> null]
Fetched(response) == [network |-> FALSE, response |-> response]

Resolved(value) == [ok |-> TRUE, value |-> value, message |-> <<>>]
Rejected(message) == [ok |-> FALSE, value |-> null, message |-> message]

\* callApi: the result of the request, or the Error it throws
callApi(http) ==
    IF http.network
    THEN Rejected(<<"Failed to fetch">>)
    ELSE IF http.response.status # 200
    THEN Rejected(IF http.response.body.error # <<>>
                  THEN http.response.body.error
                  ELSE <<"API request failed with status ", http.response.status>>)
    ELSE Resolved(http.response.body)

\* generateRedesignedImage of the service
generateRedesignedImage(http) ==
    LET result == callApi(http)
    IN  IF ~result.ok THEN result
        ELSE IF ~Truthy(result.value.imageBytes)
        THEN Rejected(<<"API response did not include image data.">>)
        ELSE Resolved(result.value.imageBytes)

Environments == [hasApiKey : BOOLEAN]

ClientRequest(action) == [method |-> "POST", bodyParses |-> TRUE, action |-> action]

\* what fetch can give for a request of the client: either definition of handler
\* serves it, with or without the credential, whatever the backend answers
HttpOutcomes(action, responses) ==
    {NetworkFailure}
    \cup {Fetched(handler(ClientRequest(action), env, b).response) :
            env \in Environments, b \in BackendOutcomes(responses)}
    \cup {Fetched(handler2(ClientRequest(action), env, b).response) :
            env \in Environments, b \in BackendOutcomes(responses)}

\* the results of the three service functions
PlanCallResults ==
    {callApi(h) : h \in HttpOutcomes("generateDesignIdeas", JsonResponses(GeneratedPlans))}

ImageCallResults ==
    {generateRedesignedImage(h) : h \in HttpOutcomes("generateRedesignedImage", ImageResponses)}

PaletteCallResults ==
    {callApi(h) : h \in HttpOutcomes("generateMorePalettes", JsonResponses(GeneratedPalettes))}

\* the Errors the three service functions can throw
PlanCallFailures == {r \in PlanCallResults : ~r.ok}
ImageCallFailures == {r \in ImageCallResults : ~r.ok}
PaletteCallFailures == {r \in PaletteCallResults : ~r.ok}

(* ======================== the client orchestrator ====================== *)

VARIABLES
    uploadedImage,        \* null or [base64 |-> photo]
    readerPending,        \* FileReader reads whose onload/onerror has not fired
    designPlan,           \* null or a DesignPlan
    generatedImage,       \* null or [url |-> data URL]
    isLoading,
    isRegenerating,
    isFetchingPalettes,
    error,                \* null or [message |-> text]
    calls                 \* the bag of gateway calls awaited

appVars == <<uploadedImage, readerPending, designPlan, generatedImage, isLoading,
             isRegenerating, isFetchingPalettes, error, calls>>

\* one request to the endpoint
VARIABLES
    gwRequest,            \* the Request
    gwEnv,                \* process.env
    gwBackend,            \* what generateContent did, once it was called
    gwServedBy,           \* the definition of handler that served the request
    gwResponse,           \* null, then the Response
    gwBackendCalls        \* the models generateContent was called with

gwVars == <<gwRequest, gwEnv, gwBackend, gwServedBy, gwResponse, gwBackendCalls>>

\* one prompt built by the endpoint
VARIABLES
    pmPayload,            \* null, or the payload of the request
    pmBuiltBy,            \* the definition of handler that built the prompt
    pmPrompt              \* null, then [text |-> the prompt sent to the backend]

pmVars == <<pmPayload, pmBuiltBy, pmPrompt>>

vars == <<appVars, gwVars, pmVars>>

ErrInputs == [message |-> "Please upload an image, select a room type, and a design style."]
ErrRead == [message |-> "Failed to read the image file. Please try uploading it again."]
ErrVisualize == [message |-> "I've created the design plan, but couldn't visualize the room. You can still see the ideas below!"]
ErrPlan == [message |-> "Sorry, I couldn't generate a design plan. This can happen if the AI is under heavy load or if the image is unsuitable for analysis. Please try again in a few moments, or with a different photo."]
ErrRecolor == [message |-> "Sorry, I couldn't visualize the new colors. The AI might be busy. Please try selecting them again in a moment."]
ErrPalettes == [message |-> "Sorry, couldn't fetch more color ideas right now. The AI might be busy. Please try again in a bit."]

DataUrl(imageBytes) == [url |-> <<"data:image/jpeg;base64,", imageBytes>>]

\* a key that would look at the color only
ColorKey(p) == <<"{\"color\":\"", p.color, "\"}">>

\* JSON.stringify of a ColorPalette
JSONstringify(p) == <<"{\"color\":\"", p.color, "\",\"accent\":\"", p.accent, "\"}">>

\* an updater that would append every returned palette
AppendPalettes(prevPlan, newPalettes) ==
    IF prevPlan = null THEN null
    ELSE [prevPlan EXCEPT !.alternativePalettes = prevPlan.alternativePalettes \o newPalettes]

\* the updater handleSuggestMorePalettes gives to setDesignPlan
MergePalettes(prevPlan, newPalettes) ==
    IF prevPlan = null THEN null
    ELSE LET existingPalettes == {JSONstringify(prevPlan.alternativePalettes[i]) :
                                     i \in 1..Len(prevPlan.alternativePalettes)}
             uniqueNewPalettes ==
                 SelectSeq(newPalettes, LAMBDA q : JSONstringify(q) \notin existingPalettes)
         IN  [prevPlan EXCEPT !.alternativePalettes = prevPlan.alternativePalettes \o uniqueNewPalettes]

\* const updatedPlan = { ...designPlan, wallColor: newColors }
UpdatedPlan(plan, newColors) == [plan EXCEPT !.wallColor = newColors]

(* --- what is rendered *)

\* the upload form with the Generate button
FormShown == designPlan = null /\ ~isLoading

isButtonDisabled == uploadedImage = null \/ isLoading

\* DesignSuggestions and the Start a New Project button
PlanShown == designPlan # null

\* the palette buttons and Suggest More Palettes are rendered and not disabled
PaletteControlsEnabled ==
    /\ PlanShown
    /\ Len(designPlan.alternativePalettes) > 0
    /\ ~(isRegenerating \/ isFetchingPalettes)

(* --- the gateway calls awaited *)

\* a call: the request sent, and the handler (flow) whose continuation awaits it
Call(action, flow, plan, newColors) ==
    [action |-> action, flow |-> flow, designPlan |-> plan, newColors |-> newColors]

Issued(c) == calls (+) SetToBag({c})
Completed(c) == calls (-) SetToBag({c})
Outstanding == BagToSet(calls)

CanCall == BagCardinality(calls) < MaxCalls

\* generateContent was not called: nothing to map
NotCalled == [throws |-> TRUE, message |-> <<>>, response |-> null]

AppInit ==
    /\ uploadedImage = null
    /\ readerPending = 0
    /\ designPlan = null
    /\ generatedImage = null
    /\ isLoading = FALSE
    /\ isRegenerating = FALSE
    /\ isFetchingPalettes = FALSE
    /\ error = null
    /\ calls = EmptyBag

\* no request to the endpoint is followed
GatewayIdle ==
    /\ gwRequest = ClientRequest("generateDesignIdeas")
    /\ gwEnv = [hasApiKey |-> TRUE]
    /\ gwBackend = NotCalled
    /\ gwServedBy = "none"
    /\ gwResponse = null
    /\ gwBackendCalls = <<>>

\* no prompt is followed
PromptIdle ==
    /\ pmPayload = null
    /\ pmBuiltBy = "none"
    /\ pmPrompt = null

Init == AppInit /\ GatewayIdle /\ PromptIdle

(* --- handleImageUpload *)

HandleImageUpload ==
    /\ FormShown
    /\ readerPending < MaxReads
    /\ readerPending' = readerPending + 1
    /\ UNCHANGED <<gwVars, pmVars>>
    /\ UNCHANGED <<uploadedImage, designPlan, generatedImage, isLoading, isRegenerating,
                   isFetchingPalettes, error, calls>>

ReaderOnload ==
    /\ readerPending > 0
    /\ \E photo \in RoomPhotos : uploadedImage' = [base64 |-> photo]
    /\ readerPending' = readerPending - 1
    /\ UNCHANGED <<gwVars, pmVars>>
    /\ UNCHANGED <<designPlan, generatedImage, isLoading, isRegenerating,
                   isFetchingPalettes, error, calls>>

ReaderOnerror ==
    /\ readerPending > 0
    /\ error' = ErrRead
    /\ readerPending' = readerPending - 1
    /\ UNCHANGED <<gwVars, pmVars>>
    /\ UNCHANGED <<uploadedImage, designPlan, generatedImage, isLoading, isRegenerating,
                   isFetchingPalettes, calls>>

(* --- handleGenerateClick *)

HandleGenerateClick ==
    /\ FormShown
    /\ ~isButtonDisabled
    /\ CanCall
    /\ IF uploadedImage = null
       THEN /\ error' = ErrInputs
            /\ UNCHANGED <<designPlan, generatedImage, isLoading, calls>>
       ELSE /\ isLoading' = TRUE
            /\ error' = null
            /\ designPlan' = null
            /\ generatedImage' = null
            /\ calls' = Issued(Call("generateDesignIdeas", "generate", null, null))
    /\ UNCHANGED <<gwVars, pmVars>>
    /\ UNCHANGED <<uploadedImage, readerPending, isRegenerating, isFetchingPalettes>>

\* a continuation that would issue the image call without storing the plan
PlanResolvedNotStored(c, newPlan) ==
    /\ calls' = Completed(c) (+) SetToBag({Call("generateRedesignedImage", "generate", newPlan, null)})
    /\ UNCHANGED <<gwVars, pmVars>>
    /\ UNCHANGED <<uploadedImage, readerPending, designPlan, generatedImage, isLoading,
                   isRegenerating, isFetchingPalettes, error>>

\* generateDesignIdeas resolves: the plan is stored and the image call is issued
PlanResolved(c, newPlan) ==
    /\ designPlan' = newPlan
    /\ calls' = Completed(c) (+) SetToBag({Call("generateRedesignedImage", "generate", newPlan, null)})
    /\ UNCHANGED <<gwVars, pmVars>>
    /\ UNCHANGED <<uploadedImage, readerPending, generatedImage, isLoading, isRegenerating,
                   isFetchingPalettes, error>>

\* a catch block that would discard the plan
GenerateFailedClearsPlan(c, newPlan) ==
    /\ error' = IF newPlan # null THEN ErrVisualize ELSE ErrPlan
    /\ isLoading' = FALSE
    /\ designPlan' = null
    /\ calls' = Completed(c)
    /\ UNCHANGED <<gwVars, pmVars>>
    /\ UNCHANGED <<uploadedImage, readerPending, generatedImage, isRegenerating,
                   isFetchingPalettes>>

\* a catch block that would not look at newPlan
GenerateFailedAlwaysWarns(c, newPlan) ==
    /\ error' = ErrVisualize
    /\ isLoading' = FALSE
    /\ calls' = Completed(c)
    /\ UNCHANGED <<gwVars, pmVars>>
    /\ UNCHANGED <<uploadedImage, readerPending, designPlan, generatedImage, isRegenerating,
                   isFetchingPalettes>>

\* the catch and finally blocks of handleGenerateClick
GenerateFailed(c, newPlan) ==
    /\ error' = IF newPlan # null THEN ErrVisualize ELSE ErrPlan
    /\ isLoading' = FALSE
    /\ calls' = Completed(c)
    /\ UNCHANGED <<gwVars, pmVars>>
    /\ UNCHANGED <<uploadedImage, readerPending, designPlan, generatedImage, isRegenerating,
                   isFetchingPalettes>>

\* generateRedesignedImage of handleGenerateClick resolves
GenerateImageResolved(c, imageBytes) ==
    /\ generatedImage' = DataUrl(imageBytes)
    /\ isLoading' = FALSE
    /\ calls' = Completed(c)
    /\ UNCHANGED <<gwVars, pmVars>>
    /\ UNCHANGED <<uploadedImage, readerPending, designPlan, isRegenerating,
                   isFetchingPalettes, error>>

(* --- handleColorChange *)

\* a handler that would store the colours only once the image has arrived
HandleColorChangeLate(newColors) ==
    /\ PaletteControlsEnabled
    /\ newColors \in Range(designPlan.alternativePalettes)
    /\ CanCall
    /\ IF designPlan = null \/ uploadedImage = null
       THEN UNCHANGED <<designPlan, generatedImage, isRegenerating, error, calls>>
       ELSE /\ isRegenerating' = TRUE
            /\ generatedImage' = null
            /\ error' = null
            /\ designPlan' = designPlan
            /\ calls' = Issued(Call("generateRedesignedImage", "recolor",
                                    UpdatedPlan(designPlan, newColors), newColors))
    /\ UNCHANGED <<gwVars, pmVars>>
    /\ UNCHANGED <<uploadedImage, readerPending, isLoading, isFetchingPalettes>>

HandleColorChange(newColors) ==
    /\ PaletteControlsEnabled
    /\ newColors \in Range(designPlan.alternativePalettes)
    /\ CanCall
    /\ IF designPlan = null \/ uploadedImage = null
       THEN UNCHANGED <<designPlan, generatedImage, isRegenerating, error, calls>>
       ELSE /\ isRegenerating' = TRUE
            /\ generatedImage' = null
            /\ error' = null
            /\ designPlan' = UpdatedPlan(designPlan, newColors)
            /\ calls' = Issued(Call("generateRedesignedImage", "recolor",
                                    UpdatedPlan(designPlan, newColors), newColors))
    /\ UNCHANGED <<gwVars, pmVars>>
    /\ UNCHANGED <<uploadedImage, readerPending, isLoading, isFetchingPalettes>>

RecolorResolved(c, imageBytes) ==
    /\ generatedImage' = DataUrl(imageBytes)
    /\ isRegenerating' = FALSE
    /\ calls' = Completed(c)
    /\ UNCHANGED <<gwVars, pmVars>>
    /\ UNCHANGED <<uploadedImage, readerPending, designPlan, isLoading,
                   isFetchingPalettes, error>>

RecolorFailed(c) ==
    /\ error' = ErrRecolor
    /\ isRegenerating' = FALSE
    /\ calls' = Completed(c)
    /\ UNCHANGED <<gwVars, pmVars>>
    /\ UNCHANGED <<uploadedImage, readerPending, designPlan, generatedImage, isLoading,
                   isFetchingPalettes>>

(* --- handleSuggestMorePalettes *)

HandleSuggestMorePalettes ==
    /\ PaletteControlsEnabled
    /\ CanCall
    /\ IF designPlan = null
       THEN UNCHANGED <<isFetchingPalettes, error, calls>>
       ELSE /\ isFetchingPalettes' = TRUE
            /\ error' = null
            /\ calls' = Issued(Call("generateMorePalettes", "palettes", designPlan, null))
    /\ UNCHANGED <<gwVars, pmVars>>
    /\ UNCHANGED <<uploadedImage, readerPending, designPlan, generatedImage, isLoading,
                   isRegenerating>>

PalettesResolved(c, newPalettes) ==
    /\ designPlan' = MergePalettes(designPlan, newPalettes)
    /\ isFetchingPalettes' = FALSE
    /\ calls' = Completed(c)
    /\ UNCHANGED <<gwVars, pmVars>>
    /\ UNCHANGED <<uploadedImage, readerPending, generatedImage, isLoading, isRegenerating,
                   error>>

PalettesFailed(c) ==
    /\ error' = ErrPalettes
    /\ isFetchingPalettes' = FALSE
    /\ calls' = Completed(c)
    /\ UNCHANGED <<gwVars, pmVars>>
    /\ UNCHANGED <<uploadedImage, readerPending, designPlan, generatedImage, isLoading,
                   isRegenerating>>

(* --- handleReset *)

HandleReset ==
    /\ PlanShown
    /\ uploadedImage' = null
    /\ designPlan' = null
    /\ generatedImage' = null
    /\ error' = null
    /\ isLoading' = FALSE
    /\ isRegenerating' = FALSE
    /\ isFetchingPalettes' = FALSE
    /\ UNCHANGED <<gwVars, pmVars>>
    /\ UNCHANGED <<readerPending, calls>>

(* --- a gateway call of the session completes *)

PlanCallReturns ==
    \E c \in Outstanding :
        /\ c.action = "generateDesignIdeas"
        /\ \E r \in PlanCallResults : r.ok /\ PlanResolved(c, r.value)

PlanCallFails ==
    \E c \in Outstanding :
        /\ c.action = "generateDesignIdeas"
        /\ PlanCallFailures # {}
        /\ GenerateFailed(c, null)

GenerateImageCallReturns ==
    \E c \in Outstanding :
        /\ c.action = "generateRedesignedImage" /\ c.flow = "generate"
        /\ \E r \in ImageCallResults : r.ok /\ GenerateImageResolved(c, r.value)

GenerateImageCallFails ==
    \E c \in Outstanding :
        /\ c.action = "generateRedesignedImage" /\ c.flow = "generate"
        /\ ImageCallFailures # {}
        /\ GenerateFailed(c, c.designPlan)

RecolorCallReturns ==
    \E c \in Outstanding :
        /\ c.action = "generateRedesignedImage" /\ c.flow = "recolor"
        /\ \E r \in ImageCallResults : r.ok /\ RecolorResolved(c, r.value)

RecolorCallFails ==
    \E c \in Outstanding :
        /\ c.action = "generateRedesignedImage" /\ c.flow = "recolor"
        /\ ImageCallFailures # {}
        /\ RecolorFailed(c)

PalettesCallReturns ==
    \E c \in Outstanding :
        /\ c.action = "generateMorePalettes"
        /\ \E r \in PaletteCallResults : r.ok /\ PalettesResolved(c, r.value)

PalettesCallFails ==
    \E c \in Outstanding :
        /\ c.action = "generateMorePalettes"
        /\ PaletteCallFailures # {}
        /\ PalettesFailed(c)

Next ==
    \/ HandleImageUpload
    \/ ReaderOnload
    \/ ReaderOnerror
    \/ HandleGenerateClick
    \/ \E p \in Palettes : HandleColorChange(p)
    \/ HandleSuggestMorePalettes
    \/ HandleReset
    \/ PlanCallReturns
    \/ PlanCallFails
    \/ GenerateImageCallReturns
    \/ GenerateImageCallFails
    \/ RecolorCallReturns
    \/ RecolorCallFails
    \/ PalettesCallReturns
    \/ PalettesCallFails

Spec == Init /\ [][Next]_vars

\* every gateway call eventually returns or fails
CallsComplete ==
    /\ WF_vars(PlanCallReturns \/ PlanCallFails)
    /\ WF_vars(GenerateImageCallReturns \/ GenerateImageCallFails)
    /\ WF_vars(RecolorCallReturns \/ RecolorCallFails)
    /\ WF_vars(PalettesCallReturns \/ PalettesCallFails)

LiveSpec == Spec /\ CallsComplete

(* ==================== properties of the orchestrator =================== *)

\* C1: when the image call of handleGenerateClick fails after generateDesignIdeas
\* returned a plan, the flow finishes without clearing the plan: the step leaves
\* designPlan as it is, sets error to the "couldn't visualize" warning and
\* isLoading to false.  (What handleReset, handleColorChange or a palette merge
\* did to designPlan while the call was awaited is theirs, not the flow's.)
C1_PartialSuccessKept ==
    [][GenerateImageCallFails =>
         /\ \E c \in Outstanding : /\ c.action = "generateRedesignedImage"
                                   /\ c.flow = "generate"
                                   /\ c.designPlan # null
                                   /\ calls' = Completed(c)
         /\ designPlan' = designPlan
         /\ error' = ErrVisualize
         /\ error' # null
         /\ isLoading' = FALSE]_vars

C1_Witness ==
    /\ error = ErrVisualize
    /\ designPlan \in GeneratedPlans
    /\ generatedImage = null
    /\ ~isLoading
    /\ calls = EmptyBag

\* C2: handleGenerateClick starts with designPlan and generatedImage null, and when
\* its generateDesignIdeas call fails the step changes neither, sets error to the
\* plan-failure message and isLoading to false, and issues no call: the failed
\* call leaves the calls awaited and nothing joins them.  (The completion of a
\* call of an earlier flow is not the flow's.)
C2_PlanFailureFatal ==
    [][/\ (HandleGenerateClick /\ uploadedImage # null) =>
            (designPlan' = null /\ generatedImage' = null /\ isLoading')
       /\ PlanCallFails =>
            /\ error' = ErrPlan
            /\ isLoading' = FALSE
            /\ designPlan' = designPlan
            /\ generatedImage' = generatedImage
            /\ \E c \in Outstanding : /\ c.action = "generateDesignIdeas"
                                      /\ calls' = Completed(c)]_vars

C2_Witness ==
    /\ error = ErrPlan
    /\ designPlan = null
    /\ generatedImage = null
    /\ ~isLoading
    /\ uploadedImage # null
    /\ calls = EmptyBag

\* C3: handleColorChange(P_new) with a plan and a photograph stores P_new as
\* designPlan.wallColor in the step that issues the image call, issues exactly one
\* generateRedesignedImage call and gives it newColors = P_new; when a recolor call
\* fails the step leaves designPlan as it is (no colour is restored), sets error
\* to the recolor message and isRegenerating to false.  (What other handlers did
\* to designPlan while the call was awaited is theirs.)
C3_RecolorOptimistic ==
    [][/\ \A p \in Palettes :
            (HandleColorChange(p) /\ designPlan # null /\ uploadedImage # null) =>
               /\ designPlan'.wallColor = p
               /\ isRegenerating'
               /\ \E c \in BagToSet(calls') :
                     /\ c.action = "generateRedesignedImage"
                     /\ c.newColors = p
                     /\ c.designPlan.wallColor = p
                     /\ calls' = Issued(c)
               /\ BagCardinality(calls') = BagCardinality(calls) + 1
       /\ RecolorCallFails =>
            /\ designPlan' = designPlan
            /\ error' = ErrRecolor
            /\ isRegenerating' = FALSE]_vars

C3_Witness ==
    /\ error = ErrRecolor
    /\ ~isRegenerating
    /\ designPlan # null
    /\ designPlan.alternativePalettes # <<>>
    /\ designPlan.wallColor = designPlan.alternativePalettes[1]
    /\ generatedImage = null
    /\ calls = EmptyBag

\* C4: when a generateMorePalettes call resolves and a plan is there, the new
\* alternativePalettes is the old list followed by the returned palettes, in the
\* order of the response, whose color and accent are not both those of a palette
\* of the old list; the rest of the plan is unchanged
C4_MergeAppends ==
    [][\A c \in Outstanding : \A r \in PaletteCallResults :
          (/\ r.ok
           /\ c.action = "generateMorePalettes"
           /\ designPlan # null
           /\ PalettesResolved(c, r.value)) =>
             LET old == designPlan.alternativePalettes
                 fresh == SelectSeq(r.value, LAMBDA q :
                             \A i \in 1..Len(old) :
                                ~(old[i].color = q.color /\ old[i].accent = q.accent))
             IN  /\ designPlan'.alternativePalettes = old \o fresh
                 /\ designPlan' = [designPlan EXCEPT !.alternativePalettes = old \o fresh]]_vars

C4_Witness ==
    /\ designPlan # null
    /\ Len(designPlan.alternativePalettes) = MaxAlternatives + 1
    /\ \A i, j \in 1..Len(designPlan.alternativePalettes) :
          i # j => designPlan.alternativePalettes[i] # designPlan.alternativePalettes[j]
    /\ ~isFetchingPalettes
    /\ error = null

\* C5: when a generateMorePalettes call resolves with palettes that are all in
\* alternativePalettes already, designPlan is left as it is; and merging the
\* response that was just merged a second time changes nothing
C5_DedupIdempotent ==
    [][\A c \in Outstanding : \A r \in PaletteCallResults :
          (/\ r.ok
           /\ c.action = "generateMorePalettes"
           /\ designPlan # null
           /\ PalettesResolved(c, r.value)) =>
             /\ (\A i \in 1..Len(r.value) : r.value[i] \in Range(designPlan.alternativePalettes))
                   => designPlan' = designPlan
             /\ MergePalettes(designPlan', r.value) = designPlan']_vars

\* a merge has extended the list to hold every palette, and a further response is awaited
C5_Witness ==
    /\ designPlan # null
    /\ Len(designPlan.alternativePalettes) > MaxAlternatives
    /\ Range(designPlan.alternativePalettes) = Palettes
    /\ \E c \in Outstanding : c.action = "generateMorePalettes" /\ c.designPlan = designPlan

\* C10: at most one gateway call of the session is outstanding at any moment
C10_AtMostOneCall == BagCardinality(calls) <= 1

\* the in-progress flag of the flow that awaits a call
FlagOf(c) ==
    IF c.flow = "generate" THEN isLoading
    ELSE IF c.flow = "recolor" THEN isRegenerating
    ELSE isFetchingPalettes

\* C11: while a gateway call of a flow is outstanding the flow's in-progress flag
\* (isLoading, isRegenerating, isFetchingPalettes) is true; neither handleReset
\* nor the completion of an earlier flow clears it
C11_FlagWhileOutstanding == \A c \in Outstanding : FlagOf(c)

\* the Error is the safety-block diagnostic of the gateway
IsSafetyDiagnostic(r) == Contains(r.message, SafetyPrefix)

\* an image call of the session rejects with r and the catch block of its
\* handler runs
ImageCallRejects(r) ==
    /\ r \in ImageCallFailures
    /\ GenerateImageCallFails \/ RecolorCallFails

\* C22: what the catch blocks show does not depend on the message of the Error
\* received (the handling of one message is the handling of any other), except
\* that a safety-block diagnostic is surfaced: the handling of one category list
\* is not the handling of a different one
C22_DiagnosticSurfaced ==
    [][\A r1, r2 \in ImageCallFailures :
          IF IsSafetyDiagnostic(r1) /\ IsSafetyDiagnostic(r2) /\ r1.message # r2.message
          THEN ~(ImageCallRejects(r1) /\ ImageCallRejects(r2))
          ELSE (~IsSafetyDiagnostic(r1) /\ ~IsSafetyDiagnostic(r2)) =>
                  (ImageCallRejects(r1) <=> ImageCallRejects(r2))]_vars

\* list is the beginning of longer
IsPrefix(list, longer) ==
    /\ Len(list) <= Len(longer)
    /\ \A i \in 1..Len(list) : longer[i] = list[i]

\* the fields of a plan the client never updates
BodyOf(plan) ==
    [analysis |-> plan.analysis, designRationale |-> plan.designRationale,
     lighting |-> plan.lighting, flooring |-> plan.flooring,
     furnitureSuggestions |-> plan.furnitureSuggestions,
     estimatedCost |-> plan.estimatedCost]

\* C23: while a plan exists, every step that is neither handleReset nor
\* handleGenerateClick changes designPlan only by replacing wallColor, with
\* alternativePalettes unchanged, or by appending to alternativePalettes, with
\* wallColor unchanged; the other fields never change
C23_PlanFrame ==
    [][(designPlan # null /\ designPlan' # designPlan /\ ~HandleReset /\ ~HandleGenerateClick) =>
          /\ designPlan' # null
          /\ BodyOf(designPlan') = BodyOf(designPlan)
          /\ \/ /\ designPlan'.alternativePalettes = designPlan.alternativePalettes
                /\ \E p \in Palettes : HandleColorChange(p)
             \/ /\ designPlan'.wallColor = designPlan.wallColor
                /\ IsPrefix(designPlan.alternativePalettes, designPlan'.alternativePalettes)
                /\ PalettesCallReturns]_vars

\* the calls the step issues
IssuedNow == {c \in BagToSet(calls') : CopiesIn(c, calls') > CopiesIn(c, calls)}

C25_OneMutatorAtATime ==
    [][/\ ((\E p \in Palettes : HandleColorChange(p)) /\ designPlan' # designPlan) =>
            calls = EmptyBag
       /\ ((PalettesCallReturns \/ PlanCallReturns) /\ designPlan' # designPlan) =>
            BagCardinality(calls) = 1]_vars

\* the step shows the image that the call c has returned
ShowsImageOf(c) ==
    /\ c.action = "generateRedesignedImage"
    /\ \E r \in ImageCallResults :
          /\ r.ok
          /\ \/ c.flow = "generate" /\ GenerateImageResolved(c, r.value)
             \/ c.flow = "recolor" /\ RecolorResolved(c, r.value)

\* C26: an image that is shown while no image call is outstanding was generated
\* for the current plan's colours: the step that shows the image of a call and
\* leaves no image call outstanding shows it with a plan whose wallColor is the
\* one the call was given (the response of an earlier image call does not replace
\* the image of a later one)
C26_ImageMatchesPlan ==
    [][\A c \in Outstanding :
          (/\ ShowsImageOf(c)
           /\ \A d \in BagToSet(calls') : d.action # "generateRedesignedImage") =>
             /\ designPlan' # null
             /\ c.designPlan.wallColor = designPlan'.wallColor]_vars

\* C27: the completion of a call issued before handleReset changes nothing; in
\* particular no image is held while there is no plan
C27_StaleAfterReset == designPlan = null => generatedImage = null

\* C28: whenever a plan is shown, no image is held and no image call is
\* outstanding, error is set: the image pane is marked as failed
C28_DegradedImageMarked ==
    (/\ PlanShown
     /\ generatedImage = null
     /\ \A c \in Outstanding : c.action # "generateRedesignedImage") =>
        error # null

\* no two palettes of the list are structurally equal
NoDuplicates(palettes) ==
    \A i, j \in 1..Len(palettes) : i # j => palettes[i] # palettes[j]

\* C29: a plan whose alternativePalettes holds no two equal palettes keeps that
\* through every recolor and every palette merge, whatever the gateway returns
C29_NoDuplicateAlternatives ==
    [][(/\ designPlan # null
        /\ NoDuplicates(designPlan.alternativePalettes)
        /\ designPlan' # null
        /\ ~PlanCallReturns) =>
          NoDuplicates(designPlan'.alternativePalettes)]_vars

\* the states in which the primary flow is finished
IdleWithError == designPlan = null /\ generatedImage = null /\ error # null
Complete == designPlan # null /\ generatedImage # null
CompleteDegraded == designPlan # null /\ generatedImage = null /\ error # null

\* the primary flow finishes: its catch or the end of its try block runs
PrimaryFlowFinishes ==
    PlanCallFails \/ GenerateImageCallReturns \/ GenerateImageCallFails

\* C30: when every gateway call eventually returns or fails, a flow in progress
\* eventually has its flag false (isLoading, isRegenerating and
\* isFetchingPalettes never stay true forever), and the primary flow finishes
\* in Idle-with-error, Complete or Complete-with-degraded-image, whatever
\* handleReset and the other flows did meanwhile
C30_FlowsTerminate ==
    /\ isLoading ~> ~isLoading
    /\ isRegenerating ~> ~isRegenerating
    /\ isFetchingPalettes ~> ~isFetchingPalettes
    /\ [][PrimaryFlowFinishes =>
            (~isLoading' /\ (IdleWithError' \/ Complete' \/ CompleteDegraded'))]_vars

(* ==================== one request to the endpoint ====================== *)

Requests == [method : {"POST", "GET"}, bodyParses : BOOLEAN,
             action : Actions \cup {"generateVideo"}]

\* the JSON document {}
EmptyObject == [empty |-> TRUE]

\* what generateContent can do for an action
BackendFor(action) ==
    IF action = "generateRedesignedImage" THEN BackendOutcomes(ImageResponses)
    ELSE IF action = "generateDesignIdeas"
    THEN BackendOutcomes(JsonResponses(GeneratedPlans \cup {EmptyObject}))
    ELSE BackendOutcomes(JsonResponses(GeneratedPalettes))

GatewayInit ==
    /\ AppInit
    /\ PromptIdle
    /\ gwRequest \in Requests
    /\ gwEnv \in Environments
    /\ gwBackend = NotCalled
    /\ gwServedBy = "none"
    /\ gwResponse = null
    /\ gwBackendCalls = <<>>

\* the request is served by the first definition of handler
Handle ==
    /\ gwResponse = null
    /\ \E b \in IF handler(gwRequest, gwEnv, NotCalled).backendCalls = <<>>
                THEN {NotCalled} ELSE BackendFor(gwRequest.action) :
          /\ gwBackend' = b
          /\ gwResponse' = handler(gwRequest, gwEnv, b).response
          /\ gwBackendCalls' = handler(gwRequest, gwEnv, b).backendCalls
    /\ gwServedBy' = "handler"
    /\ UNCHANGED <<gwRequest, gwEnv, appVars, pmVars>>

\* the request is served by the second definition of handler
Handle2 ==
    /\ gwResponse = null
    /\ \E b \in IF handler2(gwRequest, gwEnv, NotCalled).backendCalls = <<>>
                THEN {NotCalled} ELSE BackendFor(gwRequest.action) :
          /\ gwBackend' = b
          /\ gwResponse' = handler2(gwRequest, gwEnv, b).response
          /\ gwBackendCalls' = handler2(gwRequest, gwEnv, b).backendCalls
    /\ gwServedBy' = "handler2"
    /\ UNCHANGED <<gwRequest, gwEnv, appVars, pmVars>>

GatewayNext == Handle \/ Handle2

GatewaySpec == GatewayInit /\ [][GatewayNext]_vars

(* --- the prompts of one request *)

\* the payloads of action 'generateDesignIdeas'
PlanPayloads ==
    [action : {"generateDesignIdeas"}, style : Styles, roomType : RoomTypes,
     dimensions : Dimensions]

\* the payloads of action 'generateRedesignedImage'
ImagePayloads ==
    [action : {"generateRedesignedImage"}, style : Styles, roomType : RoomTypes,
     designPlan : GeneratedPlans, newColors : NewColors]

\* the plans after recolors and merges: any wall colour, a longer list
SeenPlans ==
    {MkPlan(b, w, alts) : b \in PlanBodies, w \in Palettes,
                          alts \in SeqsUpTo(Palettes, MaxSeen)}

\* the payloads of action 'generateMorePalettes'
PalettePayloads ==
    [action : {"generateMorePalettes"}, style : Styles, designPlan : SeenPlans]

PromptInit ==
    /\ AppInit
    /\ GatewayIdle
    /\ pmPayload \in PlanPayloads \cup ImagePayloads \cup PalettePayloads
    /\ pmBuiltBy = "none"
    /\ pmPrompt = null

\* case 'generateDesignIdeas', the same text in both definitions of handler
BuildPlanPrompt ==
    /\ pmPrompt = null
    /\ pmPayload.action = "generateDesignIdeas"
    /\ pmPrompt' = [text |-> PlanPrompt(pmPayload)]
    /\ \E h \in {"handler", "handler2"} : pmBuiltBy' = h
    /\ UNCHANGED <<pmPayload, appVars, gwVars>>

\* case 'generateRedesignedImage' of the first definition of handler
BuildImagePrompt ==
    /\ pmPrompt = null
    /\ pmPayload.action = "generateRedesignedImage"
    /\ pmPrompt' = [text |-> ImagePrompt(pmPayload)]
    /\ pmBuiltBy' = "handler"
    /\ UNCHANGED <<pmPayload, appVars, gwVars>>

\* case 'generateRedesignedImage' of the second definition of handler
BuildImagePrompt2 ==
    /\ pmPrompt = null
    /\ pmPayload.action = "generateRedesignedImage"
    /\ pmPrompt' = [text |-> ImagePrompt2(pmPayload)]
    /\ pmBuiltBy' = "handler2"
    /\ UNCHANGED <<pmPayload, appVars, gwVars>>

\* case 'generateMorePalettes', the same text in both definitions of handler
BuildPalettesPrompt ==
    /\ pmPrompt = null
    /\ pmPayload.action = "generateMorePalettes"
    /\ pmPrompt' = [text |-> PalettesPrompt(pmPayload)]
    /\ \E h \in {"handler", "handler2"} : pmBuiltBy' = h
    /\ UNCHANGED <<pmPayload, appVars, gwVars>>

PromptNext ==
    BuildPlanPrompt \/ BuildImagePrompt \/ BuildImagePrompt2 \/ BuildPalettesPrompt

PromptSpec == PromptInit /\ [][PromptNext]_vars

(* ===================== properties of the gateway ======================= *)

\* an image request has been served and generateContent had answered it
ImageAnswered ==
    /\ gwResponse # null
    /\ gwRequest.action = "generateRedesignedImage"
    /\ gwBackendCalls # <<>>
    /\ ~gwBackend.throws

\* the first candidate of the answer, its parts, stop reason and ratings
AnsweredFirst == FirstCandidate(gwBackend.response)

AnsweredParts ==
    IF AnsweredFirst.defined /\ AnsweredFirst.candidate.content.hasParts
    THEN AnsweredFirst.candidate.content.parts ELSE <<>>

AnsweredFinishReason ==
    IF AnsweredFirst.defined THEN AnsweredFirst.candidate.finishReason ELSE Undefined

AnsweredRatings ==
    IF AnsweredFirst.defined /\ AnsweredFirst.candidate.safetyRatings.defined
    THEN AnsweredFirst.candidate.safetyRatings.ratings ELSE <<>>

\* the non-empty texts of the parts, in order
AnsweredTexts ==
    SelectSeq([i \in 1..Len(AnsweredParts) |-> AnsweredParts[i].text], Truthy)

NoImagePart == \A i \in 1..Len(AnsweredParts) : ~Truthy(AnsweredParts[i].data)

ServerError(message) == JsonResponse(500, [error |-> <<"Server error: ">> \o message])

\* C6: when no part carries image data, a SAFETY stop reason gives the safety
\* message; otherwise returned text gives the 'text instead of an image' message
\* with the texts joined; otherwise a stop reason is reported in the message
C6_DiagnosticPriority ==
    (ImageAnswered /\ NoImagePart) =>
        /\ gwResponse.status = 500
        /\ IF AnsweredFinishReason = "SAFETY"
           THEN Contains(gwResponse.body.error, SafetyPrefix)
           ELSE IF AnsweredTexts # <<>>
           THEN gwResponse = ServerError(<<TextPrefix>> \o Join(AnsweredTexts, " ") \o <<"\"">>)
           ELSE IF Truthy(AnsweredFinishReason)
           THEN /\ Contains(gwResponse.body.error, StoppedInfix)
                /\ Contains(gwResponse.body.error, AnsweredFinishReason)
           ELSE /\ ~Contains(gwResponse.body.error, SafetyPrefix)
                /\ ~Contains(gwResponse.body.error, TextPrefix)
                /\ ~Contains(gwResponse.body.error, StoppedInfix)

GenericCase ==
    /\ ImageAnswered /\ gwServedBy = "handler" /\ NoImagePart
    /\ ~Truthy(AnsweredFinishReason)
    /\ AnsweredTexts = <<>>

\* C8 as stated: in the generic case the message is the 'no valid candidates'
\* message, also when there is a candidate whose content has no parts
C8_AlwaysNoCandidates ==
    GenericCase => gwResponse = ServerError(NoCandidatesMessage)

\* C8: served by the first definition of handler, in the generic case the message
\* is the 'no valid candidates' message when the response has no candidate, and
\* "The AI did not return a redesigned image." when it has a first candidate
C8_GenericFallback ==
    GenericCase =>
        gwResponse = ServerError(IF AnsweredFirst.defined THEN NoImageMessage
                                 ELSE NoCandidatesMessage)

\* a candidate whose content has no parts
C8_Witness ==
    /\ GenericCase
    /\ AnsweredFirst.defined
    /\ ~AnsweredFirst.candidate.content.hasParts
    /\ gwResponse = ServerError(NoImageMessage)

\* C9: the answer is 200 with the data of the first part of the first candidate
\* that carries image data, whatever the other parts, the other candidates and
\* the stop reason are; it is a failure only when no part carries image data
C9_FirstImageWins ==
    ImageAnswered =>
        IF NoImagePart
        THEN gwResponse.status = 500
        ELSE \E i \in 1..Len(AnsweredParts) :
                /\ Truthy(AnsweredParts[i].data)
                /\ \A j \in 1..(i - 1) : ~Truthy(AnsweredParts[j].data)
                /\ gwResponse = JsonResponse(200, [imageBytes |-> AnsweredParts[i].data])

\* two image parts and a safety stop: the first part's data is answered
C9_Witness ==
    /\ ImageAnswered
    /\ Len(AnsweredParts) = MaxParts
    /\ AnsweredParts[1].data = "AAAA"
    /\ AnsweredParts[MaxParts].data = "BBBB"
    /\ AnsweredFinishReason = "SAFETY"
    /\ gwResponse = JsonResponse(200, [imageBytes |-> "AAAA"])

\* the request reaches a case of the switch that calls generateContent
ReachesBackend ==
    /\ gwRequest.method = "POST"
    /\ gwEnv.hasApiKey
    /\ gwRequest.bodyParses
    /\ gwRequest.action \in Actions

DesignPlanFields ==
    {"analysis", "designRationale", "wallColor", "lighting", "flooring",
     "furnitureSuggestions", "estimatedCost", "alternativePalettes"}

\* C13: a 200 of generateDesignIdeas carries an object with every required field
\* of a DesignPlan, a 200 of generateMorePalettes carries exactly 3 palettes with
\* color and accent, and a 200 of generateRedesignedImage carries non-empty
\* imageBytes, whatever the backend returned
C13_ValidResult ==
    (gwResponse # null /\ gwResponse.status = 200) =>
        IF gwRequest.action = "generateDesignIdeas"
        THEN DOMAIN gwResponse.body = DesignPlanFields
        ELSE IF gwRequest.action = "generateMorePalettes"
        THEN /\ Len(gwResponse.body) = 3
             /\ \A i \in 1..Len(gwResponse.body) :
                   DOMAIN gwResponse.body[i] = {"color", "accent"}
        ELSE Truthy(gwResponse.body.imageBytes)

MethodNotAllowed == JsonResponse(405, [error |-> <<"Method not allowed">>])

\* C14: a request whose method is not POST is answered 405 with a JSON {error}
\* body, whether or not the credential is set and the body parses, and
\* generateContent is not called
C14_PostOnly ==
    (gwResponse # null /\ gwRequest.method # "POST") =>
        /\ gwResponse = MethodNotAllowed
        /\ gwResponse.body.error # <<>>
        /\ gwBackendCalls = <<>>

\* a GET without the credential and with a body that does not parse
C14_Witness ==
    /\ gwResponse = MethodNotAllowed
    /\ gwRequest.method = "GET"
    /\ ~gwEnv.hasApiKey
    /\ ~gwRequest.bodyParses
    /\ gwServedBy = "handler"

InvalidAction == JsonResponse(400, [error |-> <<"Invalid action">>])

\* C15 as stated: a POST whose action is not one of the three is answered 400
\* and calls no backend
C15_UnknownActionAlways400 ==
    (gwResponse # null /\ gwRequest.method = "POST" /\ gwRequest.bodyParses
        /\ gwRequest.action \notin Actions) =>
        (gwResponse.status = 400 /\ gwBackendCalls = <<>>)

\* C15: a POST with the credential set and a body that parses, whose action is
\* not one of the three, is answered 400 with a JSON {error} body and
\* generateContent is not called; without the credential the answer is a 500
C15_UnknownAction ==
    (gwResponse # null /\ gwRequest.method = "POST" /\ gwRequest.bodyParses
        /\ gwRequest.action \notin Actions) =>
        /\ gwBackendCalls = <<>>
        /\ IF gwEnv.hasApiKey
           THEN gwResponse = InvalidAction /\ gwResponse.body.error # <<>>
           ELSE gwResponse.status = 500

C15_Witness ==
    /\ gwResponse = InvalidAction
    /\ gwRequest.action \notin Actions
    /\ gwEnv.hasApiKey
    /\ gwServedBy = "handler"

MissingCredential == ServerError(<<"API_KEY environment variable is not set.">>)

\* C16 as stated: without the credential every request is answered 500, whatever
\* its method
C16_MissingCredentialAlways500 ==
    (gwResponse # null /\ ~gwEnv.hasApiKey) =>
        (gwResponse.status = 500 /\ gwBackendCalls = <<>>)

\* C16: without the credential every POST is answered 500 with the error
\* 'Server error: API_KEY environment variable is not set.', whatever its action
\* and whether or not its body parses, and generateContent is not called; a
\* request of another method is answered 405
C16_MissingCredential ==
    (gwResponse # null /\ ~gwEnv.hasApiKey) =>
        /\ gwBackendCalls = <<>>
        /\ IF gwRequest.method = "POST"
           THEN gwResponse = MissingCredential
           ELSE gwResponse = MethodNotAllowed

\* a POST without the credential whose body does not parse
C16_Witness ==
    /\ gwResponse = MissingCredential
    /\ ~gwEnv.hasApiKey
    /\ gwRequest.method = "POST"
    /\ ~gwRequest.bodyParses
    /\ gwServedBy = "handler"

\* a request for a plan or for palettes that reaches generateContent
JsonAnswered ==
    /\ gwResponse # null
    /\ ReachesBackend
    /\ gwRequest.action \in {"generateDesignIdeas", "generateMorePalettes"}

\* the text without the whitespace around it
Stripped(text) ==
    LET black == {i \in 1..Len(text) : text[i] # Whitespace}
    IN  IF black = {} THEN <<>>
        ELSE SubSeq(text, CHOOSE i \in black : \A j \in black : i <= j,
                          CHOOSE i \in black : \A j \in black : i >= j)

\* C17: for generateDesignIdeas and generateMorePalettes, when generateContent
\* throws, or returns no text, or a text that is not one JSON document once the
\* whitespace around it is removed, the answer is 500 with an error that starts
\* with 'Server error: ' (and the message thrown); when the text is one JSON
\* document the answer is 200 with exactly its value
C17_ParseFailures ==
    JsonAnswered =>
        IF gwBackend.throws
        THEN gwResponse = ServerError(gwBackend.message)
        ELSE IF /\ gwBackend.response.hasText
                /\ Len(Stripped(gwBackend.response.text)) = 1
                /\ Stripped(gwBackend.response.text)[1].kind = "json"
        THEN gwResponse = JsonResponse(200, Stripped(gwBackend.response.text)[1].value)
        ELSE /\ gwResponse.status = 500
             /\ Head(gwResponse.body.error) = "Server error: "
             /\ Len(gwResponse.body.error) > 1

\* a JSON document followed by other text: 500
C17_Witness ==
    /\ JsonAnswered
    /\ ~gwBackend.throws
    /\ gwBackend.response.hasText
    /\ Len(gwBackend.response.text) = 2
    /\ gwBackend.response.text[1].kind = "json"
    /\ gwBackend.response.text[2] = Junk
    /\ gwResponse = ServerError(<<"Unexpected token in JSON">>)


(* ===================== properties of the prompts ======================= *)

PlanPromptBuilt == pmPrompt # null /\ pmPayload.action = "generateDesignIdeas"

ImagePromptBuilt == pmPrompt # null /\ pmPayload.action = "generateRedesignedImage"

\* both the width and the length were given
DimensionsGiven ==
    /\ pmPayload.dimensions.defined
    /\ Truthy(pmPayload.dimensions.width)
    /\ Truthy(pmPayload.dimensions.length)

\* the texts that only the dimension clause writes
DimensionTokens ==
    {DimensionLead, DimensionTail, " wide by ", "feet", "meters"}
    \cup (DimensionValues \ {""})

\* the dimension clause as the specification words it
DimensionClause ==
    LET d == pmPayload.dimensions
        unitName == IF d.unit = "ft" THEN "feet" ELSE "meters"
    IN  <<DimensionLead, d.width, " ", unitName, " wide by ", d.length, " ", unitName,
          DimensionTail>>

\* list[from .. from + Len(part) - 1] = part
OccursAt(list, part, from) ==
    /\ from + Len(part) - 1 <= Len(list)
    /\ \A i \in 1..Len(part) : list[from + i - 1] = part[i]

\* String.prototype.includes for consecutive tokens
Includes(list, part) == \E from \in 1..Len(list) : OccursAt(list, part, from)

ColourNames ==
    UNION {{w.color, w.accent} : w \in Palettes}
    \cup UNION {{n.color, n.accent} : n \in NewColors \ {[defined |-> FALSE]}}

\* the colours the prompt uses
ColoursUsed == Range(pmPrompt.text) \cap ColourNames

\* C19: the colours of the image prompt are those of newColors, both of them,
\* whenever newColors is supplied, and those of plan.wallColor otherwise; the
\* prompt never uses a field of newColors together with a field of
\* plan.wallColor
C19_EffectiveColours ==
    ImagePromptBuilt =>
        LET newColors == pmPayload.newColors
            wallColor == pmPayload.designPlan.wallColor
        IN  IF newColors.defined
            THEN ColoursUsed \subseteq {newColors.color, newColors.accent}
            ELSE ColoursUsed \subseteq {wallColor.color, wallColor.accent}

\* the spellings that equal 'exterior' when the case is ignored
ExteriorSpellings == {"Exterior", "EXTERIOR", "exterior"}

\* the prompt is written from the exterior template
ExteriorTemplate == pmPrompt.text[1] \in {ExteriorTask, ExteriorTask2}

\* the prompt is written from the interior template
InteriorTemplate == pmPrompt.text[1] \in {InteriorTask, InteriorTask2}

\* the closing instructions, each asking for the image alone and no text
SingleImageInstructions == {ExteriorOutput, InteriorOutput, Goal2}

\* C20: the image prompt is written from exactly one of the two templates, the
\* exterior one exactly when roomType equals 'exterior' ignoring case, whatever
\* the style, the plan and the colours; its last instruction asks for a single
\* image and no text
C20_ExteriorBranch ==
    ImagePromptBuilt =>
        /\ ExteriorTemplate # InteriorTemplate
        /\ ExteriorTemplate <=> pmPayload.roomType \in ExteriorSpellings
        /\ pmPrompt.text[Len(pmPrompt.text)] \in SingleImageInstructions

C20_Witness ==
    /\ ImagePromptBuilt
    /\ pmPayload.roomType = "Exterior"
    /\ ExteriorTemplate
    /\ pmBuiltBy = "handler"

PalettesPromptBuilt == pmPrompt # null /\ pmPayload.action = "generateMorePalettes"

\* the places of the prompt where a listed palette starts
ListedAt == {i \in 1..Len(pmPrompt.text) : pmPrompt.text[i] = "- "}

\* C21: the more-palettes prompt lists the plan's wallColor and then every
\* element of alternativePalettes, one line for each occurrence and in that
\* order, whatever wall colour a recolor has set and however long merges have
\* made the list
C21_PalettesListed ==
    PalettesPromptBuilt =>
        LET seen == <<pmPayload.designPlan.wallColor>>
                        \o pmPayload.designPlan.alternativePalettes
        IN  /\ Cardinality(ListedAt) = Len(seen)
            /\ \A i \in ListedAt :
                  LET k == Cardinality({j \in ListedAt : j <= i})
                  IN  /\ pmPrompt.text[i + 1] = seen[k].color
                      /\ pmPrompt.text[i + 2] = " & "
                      /\ pmPrompt.text[i + 3] = seen[k].accent

C21_Witness ==
    /\ PalettesPromptBuilt
    /\ Len(pmPayload.designPlan.alternativePalettes) = MaxSeen
    /\ pmPayload.designPlan.wallColor = pmPayload.designPlan.alternativePalettes[2]
    /\ pmPayload.designPlan.alternativePalettes[1] # pmPayload.designPlan.alternativePalettes[2]

====
